---- MODULE Spec2Model ----
(***************************************************************************)
(* Model of placement/handlers/allocation_candidate.py: the handler of     *)
(* GET /allocation_candidates and the transforms that reshape the matching *)
(* engine's result into the wire format of the negotiated microversion.    *)
(*                                                                         *)
(* Python values whose dynamic type matters are tagged records:            *)
(*   a list  is [type |-> "list", items |-> <<...>>]                       *)
(*   a dict  is [type |-> "dict", keys |-> <<k1, ...>>, map |-> [k |-> v]] *)
(*           (keys holds the insertion order, which iteration follows:     *)
(*           the order of a dict and of a defaultdict since Python 3.7)    *)
(*   an int  is [type |-> "int", val |-> n]                                *)
(* A dict literal with fixed keys is a TLA+ record.                        *)
(***************************************************************************)
EXTENDS Integers, Sequences, FiniteSets, TLC

\* ------------------------------------------------------------ bounds
\* Most AllocationRequests in one input of the transforms.
MaxARs == 2
\* Most ResourceRequests in one input of the transforms, over all its AllocationRequests.
MaxTotalRR == 3

\* ------------------------------------------------------------ universes
UUIDs == {"A", "B"}
Classes == {"VCPU", "MEMORY_MB"}
Amounts == {1, 2}

\* The ResourceRequest objects the engine can hand over (rr.resource_provider.uuid,
\* rr.resource_class, rr.amount).
ResourceRequests ==
    {[resource_provider |-> [uuid |-> u], resource_class |-> c, amount |-> a] :
        u \in UUIDs, c \in Classes, a \in Amounts}

\* The ways to cut n items into k consecutive runs (runs may be empty).
RECURSIVE Cuts(_, _)
Cuts(n, k) ==
    IF k = 0 THEN (IF n = 0 THEN {<<>>} ELSE {})
    ELSE UNION {{<<h>> \o t : t \in Cuts(n - h, k - 1)} : h \in 0..n}

RECURSIVE SumTo(_, _)
SumTo(lens, i) == IF i = 0 THEN 0 ELSE lens[i] + SumTo(lens, i - 1)

\* flat cut into runs of the lengths lens.
Split(flat, lens) ==
    [i \in 1..Len(lens) |->
        SubSeq(flat, SumTo(lens, i - 1) + 1, SumTo(lens, i))]

\* The list of AllocationRequests whose resource_requests are the runs of flat.
AllocationRequestList(flat, lens) ==
    [i \in 1..Len(lens) |-> [resource_requests |-> Split(flat, lens)[i]]]

\* ------------------------------------------------------------ python values
PyList(s) == [type |-> "list", items |-> s]
PyInt(n) == [type |-> "int", val |-> n]
EmptyDict == [type |-> "dict", keys |-> <<>>, map |-> <<>>]

\* d[k] = v
DictSet(d, k, v) ==
    [type |-> "dict",
     keys |-> IF k \in DOMAIN d.map THEN d.keys ELSE Append(d.keys, k),
     map  |-> [x \in (DOMAIN d.map) \cup {k} |-> IF x = k THEN v ELSE d.map[x]]]

\* list(d.items())
DictItems(d) == [i \in 1..Len(d.keys) |-> <<d.keys[i], d.map[d.keys[i]]>>]

\* ------------------------------------------------------------ transforms
\* One pass of the inner loop of _transform_allocation_requests_dict.
DictStep(rp_resources, rr) ==
    LET u == rr.resource_provider.uuid
        d1 == IF u \in DOMAIN rp_resources.map
              THEN rp_resources
              ELSE DictSet(rp_resources, u, [resources |-> EmptyDict])
        res_dict == d1.map[u].resources
    IN  DictSet(d1, u, [resources |-> DictSet(res_dict, rr.resource_class, rr.amount)])

RECURSIVE DictFold(_, _, _)
DictFold(acc, rrs, i) ==
    IF i > Len(rrs) THEN acc ELSE DictFold(DictStep(acc, rrs[i]), rrs, i + 1)

transform_allocation_requests_dict(alloc_reqs) ==
    PyList([i \in 1..Len(alloc_reqs) |->
        [allocations |-> DictFold(EmptyDict, alloc_reqs[i].resource_requests, 1)]])

\* One pass of the inner loop of _transform_allocation_requests_list.
ListStep(provider_resources, rr) ==
    LET u == rr.resource_provider.uuid
        d1 == IF u \in DOMAIN provider_resources.map
              THEN provider_resources
              ELSE DictSet(provider_resources, u, EmptyDict)
        res_dict == d1.map[u]
    IN  DictSet(d1, u, DictSet(res_dict, rr.resource_class, rr.amount))

RECURSIVE ListFold(_, _, _)
ListFold(acc, rrs, i) ==
    IF i > Len(rrs) THEN acc ELSE ListFold(ListStep(acc, rrs[i]), rrs, i + 1)

\* The list comprehension over provider_resources.items().
ProviderEntries(provider_resources) ==
    LET items == DictItems(provider_resources)
    IN  [i \in 1..Len(items) |->
            [resource_provider |-> [uuid |-> items[i][1]],
             resources |-> items[i][2]]]

\* A transform that emits one entry per ResourceRequest, without grouping them.
transform_allocation_requests_list_ungrouped(alloc_reqs) ==
    PyList([i \in 1..Len(alloc_reqs) |->
        [allocations |-> PyList(
            [j \in 1..Len(alloc_reqs[i].resource_requests) |->
                LET rr == alloc_reqs[i].resource_requests[j]
                IN  [resource_provider |-> [uuid |-> rr.resource_provider.uuid],
                     resources |-> DictSet(EmptyDict, rr.resource_class, rr.amount)]])]])

transform_allocation_requests_list(alloc_reqs) ==
    PyList([i \in 1..Len(alloc_reqs) |->
        [allocations |-> PyList(ProviderEntries(
            ListFold(EmptyDict, alloc_reqs[i].resource_requests, 1)))]])


\* ------------------------------------------------------------ provider summaries
\* Most ProviderSummary objects in one engine result given to the summaries transform.
MaxPS == 2
\* Most traits in one such result, over all its ProviderSummary objects.
MaxTotalTraits == 2

TraitNames == {"HW_CPU_X86_AVX512F", "HW_NIC_OFFLOAD_TSO"}

\* The ps.resources collections a ProviderSummary can carry (psr.resource_class,
\* psr.capacity, psr.used).
SummaryResources ==
    {<<>>,
     <<[resource_class |-> "VCPU", capacity |-> 4, used |-> 0],
       [resource_class |-> "MEMORY_MB", capacity |-> 8, used |-> 2]>>}

\* The list of ProviderSummary objects of providers us, resources rs and the runs
\* of the trait names flat as their traits.
ProviderSummaryList(us, rs, flat, lens) ==
    [i \in 1..Len(lens) |->
        [resource_provider |-> [uuid |-> us[i]],
         resources |-> rs[i],
         traits |-> [j \in 1..Len(Split(flat, lens)[i]) |->
                        [name |-> Split(flat, lens)[i][j]]]]]

\* The dict comprehension over ps.resources.
RECURSIVE SummaryResourcesDict(_, _, _)
SummaryResourcesDict(acc, psrs, i) ==
    IF i > Len(psrs) THEN acc
    ELSE SummaryResourcesDict(
            DictSet(acc, psrs[i].resource_class,
                    [capacity |-> psrs[i].capacity, used |-> psrs[i].used]),
            psrs, i + 1)

\* [t.name for t in ps.traits]
TraitNameList(traits) == PyList([j \in 1..Len(traits) |-> traits[j].name])

\* A loop body that leaves "traits" out when the provider has none.
SummaryStepSkippingEmptyTraits(ret, ps, include_traits) ==
    LET resources == SummaryResourcesDict(EmptyDict, ps.resources, 1)
    IN  DictSet(ret, ps.resource_provider.uuid,
                IF include_traits /\ Len(ps.traits) > 0
                THEN [resources |-> resources, traits |-> TraitNameList(ps.traits)]
                ELSE [resources |-> resources])

\* One pass of the loop of _transform_provider_summaries.
SummaryStep(ret, ps, include_traits) ==
    LET resources == SummaryResourcesDict(EmptyDict, ps.resources, 1)
    IN  DictSet(ret, ps.resource_provider.uuid,
                IF include_traits
                THEN [resources |-> resources, traits |-> TraitNameList(ps.traits)]
                ELSE [resources |-> resources])

RECURSIVE SummaryFold(_, _, _, _)
SummaryFold(ret, p_sums, include_traits, i) ==
    IF i > Len(p_sums) THEN ret
    ELSE SummaryFold(SummaryStep(ret, p_sums[i], include_traits),
                     p_sums, include_traits, i + 1)

transform_provider_summaries(p_sums, include_traits) ==
    SummaryFold(EmptyDict, p_sums, include_traits, 1)

\* ------------------------------------------------------------ microversions
\* The lowest minor version the handler is registered for ('1.10').
MinMinor == 10
\* The highest minor version of a request.
MaxMinor == 22

\* want_version: a (major, minor) pair.
Versions == {<<1, m>> : m \in MinMinor..MaxMinor}

\* want_version.matches(min_version): want_version is at or above min_version.
matches(version, min_version) ==
    \/ version[1] > min_version[1]
    \/ version[1] = min_version[1] /\ version[2] >= min_version[2]

\* A format choice that takes the dict format only above 1.12.
transform_allocation_candidates_above(alloc_cands, want_version) ==
    [allocation_requests |->
        IF want_version /= <<1, 12>> /\ matches(want_version, <<1, 12>>)
        THEN transform_allocation_requests_dict(alloc_cands.allocation_requests)
        ELSE transform_allocation_requests_list(alloc_cands.allocation_requests),
     provider_summaries |->
        transform_provider_summaries(alloc_cands.provider_summaries,
                                     matches(want_version, <<1, 17>>))]

transform_allocation_candidates(alloc_cands, want_version) ==
    [allocation_requests |->
        IF matches(want_version, <<1, 12>>)
        THEN transform_allocation_requests_dict(alloc_cands.allocation_requests)
        ELSE transform_allocation_requests_list(alloc_cands.allocation_requests),
     provider_summaries |->
        transform_provider_summaries(alloc_cands.provider_summaries,
                                     matches(want_version, <<1, 17>>))]

\* ------------------------------------------------------------ the handler's pieces
\* The query schema list_allocation_candidates validates against.
SelectSchemaAscending(want_version) ==
    IF matches(want_version, <<1, 16>>) THEN "GET_SCHEMA_1_16"
    ELSE IF matches(want_version, <<1, 17>>) THEN "GET_SCHEMA_1_17"
    ELSE IF matches(want_version, <<1, 21>>) THEN "GET_SCHEMA_1_21"
    ELSE "GET_SCHEMA_1_10"

SelectSchema(want_version) ==
    IF matches(want_version, <<1, 21>>) THEN "GET_SCHEMA_1_21"
    ELSE IF matches(want_version, <<1, 17>>) THEN "GET_SCHEMA_1_17"
    ELSE IF matches(want_version, <<1, 16>>) THEN "GET_SCHEMA_1_16"
    ELSE "GET_SCHEMA_1_10"

\* A string of decimal digits is the sequence of its digits.
\* int(s) of such a string.
RECURSIVE int(_)
int(s) ==
    IF Len(s) = 0 THEN 0
    ELSE 10 * int(SubSeq(s, 1, Len(s) - 1)) + s[Len(s)]

\* A conversion that reads the first character only.
LimitArgumentFirstChar(limit) ==
    IF Len(limit.items) > 0 THEN PyInt(limit.items[1][1]) ELSE limit

\* limit = req.GET.getall('limit'); if limit: limit = int(limit[0])
LimitArgument(limit) ==
    IF Len(limit.items) > 0 THEN PyInt(int(limit.items[1])) ELSE limit

NoException == [type |-> "none"]
HTTPBadRequest(msg) == [type |-> "HTTPBadRequest", status |-> 400, msg |-> msg]

\* The exceptions AllocationCandidates.get_by_requests raises, with their text.
EngineExceptions ==
    {[type |-> "ResourceClassNotFound", text |-> "No such resource class BOGUS."],
     [type |-> "TraitNotFound", text |-> "No such trait(s): CUSTOM_BOGUS."],
     [type |-> "DBError", text |-> "connection lost"]}

\* An except clause that catches ResourceClassNotFound alone.
EngineErrorOnlyResourceClass(exc) ==
    IF exc.type = "ResourceClassNotFound"
    THEN HTTPBadRequest(<<"Invalid resource class in resources parameter: ", exc.text>>)
    ELSE exc

\* What leaves the try block when get_by_requests raises exc. A message is the
\* sequence of the strings it is made of.
EngineError(exc) ==
    IF exc.type = "ResourceClassNotFound"
    THEN HTTPBadRequest(<<"Invalid resource class in resources parameter: ", exc.text>>)
    ELSE IF exc.type = "TraitNotFound"
    THEN HTTPBadRequest(<<exc.text>>)
    ELSE exc

Unset == [type |-> "unset"]
\* An attribute that was assigned v.
Assigned(v) == [type |-> "set", value |-> v]
NotCalled == [type |-> "not-called"]

\* req.response before the handler touches it.
FreshResponse ==
    [body |-> Unset, content_type |-> Unset, cache_control |-> Unset,
     last_modified |-> Unset, body_sets |-> 0]

\* A response that sends the cache headers only above 1.15.
BuildResponseAbove(response, trx_cands, want_version, now) ==
    LET r == [response EXCEPT
                !.body = Assigned([encoding |-> "utf-8", json |-> trx_cands]),
                !.body_sets = @ + 1,
                !.content_type = Assigned("application/json")]
    IN  IF want_version /= <<1, 15>> /\ matches(want_version, <<1, 15>>)
        THEN [r EXCEPT !.cache_control = Assigned("no-cache"),
                       !.last_modified = Assigned(now)]
        ELSE r

\* The response after body, content_type and the cache headers are assigned;
\* body_sets counts the assignments to response.body.
BuildResponse(response, trx_cands, want_version, now) ==
    LET r == [response EXCEPT
                !.body = Assigned([encoding |-> "utf-8", json |-> trx_cands]),
                !.body_sets = @ + 1,
                !.content_type = Assigned("application/json")]
    IN  IF matches(want_version, <<1, 15>>)
        THEN [r EXCEPT !.cache_control = Assigned("no-cache"),
                       !.last_modified = Assigned(now)]
        ELSE r

\* ------------------------------------------------------------ the handler's inputs
\* Most AllocationRequests in one engine result given to the handler.
MaxCands == 3
\* Most ResourceRequests in one such result, over all its AllocationRequests.
MaxCandRR == 1

\* The values of the request's limit parameter.
LimitStrings == {<<2>>, <<1, 0>>, <<0, 3>>}

\* The provider summaries of an engine result given to the handler.
SampleSummaries ==
    {<<>>,
     <<[resource_provider |-> [uuid |-> "A"],
        resources |-> <<[resource_class |-> "VCPU", capacity |-> 4, used |-> 1]>>,
        traits |-> <<[name |-> "HW_CPU_X86_AVX512F"]>>],
       [resource_provider |-> [uuid |-> "B"],
        resources |-> <<>>,
        traits |-> <<>>]>>}

\* The allocation requests of an engine result given to the summaries transform.
SampleAllocationRequests ==
    {<<>>,
     <<[resource_requests |->
          <<[resource_provider |-> [uuid |-> "A"], resource_class |-> "VCPU", amount |-> 2],
            [resource_provider |-> [uuid |-> "B"], resource_class |-> "MEMORY_MB",
             amount |-> 1]>>]>>}

\* The values timeutils.utcnow() returns.
Times == {"t1", "t2"}

\* ------------------------------------------------------------ state
VARIABLES
    t_in,           \* the list of AllocationRequests given to both transforms
    t_list,         \* what _transform_allocation_requests_list returned, or NotCalled
    t_dict,         \* what _transform_allocation_requests_dict returned, or NotCalled
    pc,             \* where list_allocation_candidates is
    want_version,   \* req.environ[microversion.MICROVERSION_ENVIRON]
    req_limit,      \* req.GET.getall('limit')
    get_schema,     \* the schema given to util.validate_query_params, or "none"
    limit,          \* the handler's local variable limit
    engine_calls,   \* the calls of AllocationCandidates.get_by_requests, in order
    cands,          \* what get_by_requests returned, or NotCalled
    raised,         \* the exception that left the handler, or NoException
    failed_at,      \* the call that raised: "none", "validate", "parse" or "engine"
    engine_exc,     \* the exception get_by_requests raised, or NoException
    trx_calls,      \* the number of calls of _transform_allocation_candidates
    trx_cands,      \* what _transform_allocation_candidates returned, or NotCalled
    response        \* req.response

tvars == <<t_in, t_list, t_dict>>
hvars == <<pc, want_version, req_limit, get_schema, limit, engine_calls, cands,
           raised, failed_at, engine_exc, trx_calls, trx_cands, response>>
vars == <<t_in, t_list, t_dict, pc, want_version, req_limit, get_schema, limit,
          engine_calls, cands, raised, failed_at, engine_exc, trx_calls, trx_cands,
          response>>

\* ------------------------------------------------------------ list_allocation_candidates
TransformsIdle ==
    /\ t_in = <<>>
    /\ t_list = NotCalled
    /\ t_dict = NotCalled

Init ==
    /\ TransformsIdle
    /\ pc = "start"
    /\ want_version \in Versions
    /\ req_limit \in {PyList(<<>>)} \cup {PyList(<<s>>) : s \in LimitStrings}
    /\ get_schema = "none"
    /\ limit = Unset
    /\ engine_calls = <<>>
    /\ cands = NotCalled
    /\ raised = NoException
    /\ failed_at = "none"
    /\ engine_exc = NoException
    /\ trx_calls = 0
    /\ trx_cands = NotCalled
    /\ response = FreshResponse

\* A validation whose failure is ignored.
ValidateQueryUnchecked ==
    /\ pc = "start"
    /\ get_schema' = SelectSchema(want_version)
    /\ \E ok \in BOOLEAN :
          /\ pc' = "validated"
          /\ failed_at' = IF ok THEN failed_at ELSE "validate"
          /\ raised' = raised
    /\ UNCHANGED <<tvars, want_version, req_limit, limit, engine_calls, cands,
                   engine_exc, trx_calls, trx_cands, response>>

\* Lines 212-221: the schema is chosen and util.validate_query_params returns or
\* raises HTTPBadRequest.
ValidateQuery ==
    /\ pc = "start"
    /\ get_schema' = SelectSchema(want_version)
    /\ \E ok \in BOOLEAN :
          IF ok
          THEN /\ pc' = "validated"
               /\ UNCHANGED <<raised, failed_at>>
          ELSE /\ pc' = "raised"
               /\ raised' = HTTPBadRequest(<<"Invalid query string parameters">>)
               /\ failed_at' = "validate"
    /\ UNCHANGED <<tvars, want_version, req_limit, limit, engine_calls, cands,
                   engine_exc, trx_calls, trx_cands, response>>

\* Lines 223-228: util.parse_qs_request_groups returns or raises HTTPBadRequest,
\* then limit is read and converted.
ParseQuery ==
    /\ pc = "validated"
    /\ \E ok \in BOOLEAN :
          IF ok
          THEN /\ pc' = "parsed"
               /\ limit' = LimitArgument(req_limit)
               /\ UNCHANGED <<raised, failed_at>>
          ELSE /\ pc' = "raised"
               /\ raised' = HTTPBadRequest(<<"Badly formed resources parameter">>)
               /\ failed_at' = "parse"
               /\ UNCHANGED limit
    /\ UNCHANGED <<tvars, want_version, req_limit, get_schema, engine_calls, cands,
                   engine_exc, trx_calls, trx_cands, response>>

\* Lines 230-232: get_by_requests is called with limit and returns candidates.
EngineReturns ==
    /\ pc = "parsed"
    /\ engine_calls' = Append(engine_calls, [limit |-> limit])
    /\ \E j \in 0..MaxCands, m \in 0..MaxCandRR, ps \in SampleSummaries :
          \E flat \in [1..m -> ResourceRequests], lens \in Cuts(m, j) :
             cands' = [allocation_requests |-> AllocationRequestList(flat, lens),
                       provider_summaries |-> ps]
    /\ pc' = "returned"
    /\ UNCHANGED <<tvars, want_version, req_limit, get_schema, limit, raised,
                   failed_at, engine_exc, trx_calls, trx_cands, response>>

\* Lines 230-238: get_by_requests is called with limit and raises.
EngineRaises ==
    /\ pc = "parsed"
    /\ engine_calls' = Append(engine_calls, [limit |-> limit])
    /\ \E exc \in EngineExceptions :
          /\ engine_exc' = exc
          /\ raised' = EngineError(exc)
    /\ failed_at' = "engine"
    /\ pc' = "raised"
    /\ UNCHANGED <<tvars, want_version, req_limit, get_schema, limit, cands,
                   trx_calls, trx_cands, response>>

\* Lines 240-248: the candidates are transformed and the response is filled.
Respond ==
    /\ pc = "returned"
    /\ trx_cands' = transform_allocation_candidates(cands, want_version)
    /\ trx_calls' = trx_calls + 1
    /\ \E now \in Times :
          response' = BuildResponse(response,
                                    transform_allocation_candidates(cands, want_version),
                                    want_version, now)
    /\ pc' = "done"
    /\ UNCHANGED <<tvars, want_version, req_limit, get_schema, limit, engine_calls,
                   cands, raised, failed_at, engine_exc>>

Next ==
    \/ ValidateQuery
    \/ ParseQuery
    \/ EngineReturns
    \/ EngineRaises
    \/ Respond

Spec == Init /\ [][Next]_vars

\* ------------------------------------------------------------ the transforms alone
HandlerIdle ==
    /\ pc = "idle"
    /\ want_version = <<1, MinMinor>>
    /\ req_limit = PyList(<<>>)
    /\ get_schema = "none"
    /\ limit = Unset
    /\ engine_calls = <<>>
    /\ cands = NotCalled
    /\ raised = NoException
    /\ failed_at = "none"
    /\ engine_exc = NoException
    /\ trx_calls = 0
    /\ trx_cands = NotCalled
    /\ response = FreshResponse

TInit ==
    /\ HandlerIdle
    /\ \E j \in 0..MaxARs, m \in 0..MaxTotalRR :
          \E flat \in [1..m -> ResourceRequests], lens \in Cuts(m, j) :
             t_in = AllocationRequestList(flat, lens)
    /\ t_list = NotCalled
    /\ t_dict = NotCalled

CallTransformList ==
    /\ t_list = NotCalled
    /\ t_list' = transform_allocation_requests_list(t_in)
    /\ UNCHANGED <<t_in, t_dict, hvars>>

CallTransformDict ==
    /\ t_dict = NotCalled
    /\ t_dict' = transform_allocation_requests_dict(t_in)
    /\ UNCHANGED <<t_in, t_list, hvars>>

TNext == CallTransformList \/ CallTransformDict

SpecT == TInit /\ [][TNext]_vars

\* ------------------------------------------------------------ _transform_allocation_candidates alone
CInit ==
    /\ TransformsIdle
    /\ pc = "transform"
    /\ want_version \in Versions
    /\ req_limit = PyList(<<>>)
    /\ get_schema = "none"
    /\ limit = Unset
    /\ engine_calls = <<>>
    /\ \E j \in 0..MaxPS, m \in 0..MaxTotalTraits, ars \in SampleAllocationRequests :
          \E us \in [1..j -> UUIDs], rs \in [1..j -> SummaryResources],
             flat \in [1..m -> TraitNames], lens \in Cuts(m, j) :
                cands = [allocation_requests |-> ars,
                         provider_summaries |-> ProviderSummaryList(us, rs, flat, lens)]
    /\ raised = NoException
    /\ failed_at = "none"
    /\ engine_exc = NoException
    /\ trx_calls = 0
    /\ trx_cands = NotCalled
    /\ response = FreshResponse

CallTransformCandidates ==
    /\ pc = "transform"
    /\ trx_cands = NotCalled
    /\ trx_cands' = transform_allocation_candidates(cands, want_version)
    /\ trx_calls' = trx_calls + 1
    /\ UNCHANGED <<tvars, pc, want_version, req_limit, get_schema, limit,
                   engine_calls, cands, raised, failed_at, engine_exc, response>>

CNext == CallTransformCandidates

SpecC == CInit /\ [][CNext]_vars

\* ------------------------------------------------------------ properties
\* version is below 1.minor.
Below(version, minor) == version[1] < 1 \/ (version[1] = 1 /\ version[2] < minor)

\* The provider uuids an AllocationRequest names.
ProvidersOf(ar) ==
    {ar.resource_requests[j].resource_provider.uuid : j \in 1..Len(ar.resource_requests)}

\* The provider uuids one element of allocation_requests names, in either format.
ProvidersIn(element) ==
    IF element.allocations.type = "list"
    THEN {element.allocations.items[j].resource_provider.uuid :
            j \in 1..Len(element.allocations.items)}
    ELSE DOMAIN element.allocations.map

\* C1: the shape of allocation_requests depends on the version alone: below 1.12
\* every element's "allocations" is the flat list of {resource_provider: {uuid},
\* resources} objects, at or above 1.12 it is the mapping keyed by provider uuid,
\* and one output never holds both shapes.
C1_FormatByVersion ==
    trx_cands /= NotCalled =>
        \A i \in 1..Len(trx_cands.allocation_requests.items) :
            LET a == trx_cands.allocation_requests.items[i].allocations
                ar == cands.allocation_requests[i]
            IN  IF Below(want_version, 12)
                THEN /\ a.type = "list"
                     /\ \A j \in 1..Len(a.items) :
                           /\ DOMAIN a.items[j] = {"resource_provider", "resources"}
                           /\ DOMAIN a.items[j].resource_provider = {"uuid"}
                           /\ a.items[j].resource_provider.uuid \in ProvidersOf(ar)
                ELSE /\ a.type = "dict"
                     /\ DOMAIN a.map = ProvidersOf(ar)
                     /\ \A u \in DOMAIN a.map : DOMAIN a.map[u] = {"resources"}

C1_Witness ==
    /\ pc = "done"
    /\ want_version = <<1, 12>>
    /\ Len(trx_cands.allocation_requests.items) >= 2
    /\ \E i \in 1..Len(trx_cands.allocation_requests.items) :
          /\ trx_cands.allocation_requests.items[i].allocations.type = "dict"
          /\ trx_cands.allocation_requests.items[i].allocations.keys /= <<>>

\* The (provider uuid, resource class, amount) facts of an AllocationRequest.
FactsOfRequest(ar) ==
    {<<ar.resource_requests[j].resource_provider.uuid,
       ar.resource_requests[j].resource_class,
       ar.resource_requests[j].amount>> : j \in 1..Len(ar.resource_requests)}

\* The facts read from one element of the flat-list format.
FactsOfListElement(element) ==
    UNION {{<<element.allocations.items[j].resource_provider.uuid, c,
              element.allocations.items[j].resources.map[c]>> :
               c \in DOMAIN element.allocations.items[j].resources.map} :
           j \in 1..Len(element.allocations.items)}

\* The facts read from one element of the grouped-by-provider format.
FactsOfDictElement(element) ==
    UNION {{<<u, c, element.allocations.map[u].resources.map[c]>> :
               c \in DOMAIN element.allocations.map[u].resources.map} :
           u \in DOMAIN element.allocations.map}

BothTransformsCalled == t_list /= NotCalled /\ t_dict /= NotCalled

\* C2: reshaping is lossless: at every position the facts of the flat-list output,
\* the facts of the grouped-by-provider output and the facts of the input
\* AllocationRequest are the same set.
C2_Lossless ==
    BothTransformsCalled =>
        /\ Len(t_list.items) = Len(t_in)
        /\ Len(t_dict.items) = Len(t_in)
        /\ \A i \in 1..Len(t_in) :
              /\ FactsOfListElement(t_list.items[i]) = FactsOfDictElement(t_dict.items[i])
              /\ FactsOfListElement(t_list.items[i]) = FactsOfRequest(t_in[i])

\* Two ResourceRequests of ar name the same provider and class with different amounts.
HasConflict(ar) ==
    \E j, k \in 1..Len(ar.resource_requests) :
        /\ j < k
        /\ ar.resource_requests[j].resource_provider.uuid =
           ar.resource_requests[k].resource_provider.uuid
        /\ ar.resource_requests[j].resource_class = ar.resource_requests[k].resource_class
        /\ ar.resource_requests[j].amount /= ar.resource_requests[k].amount

\* The two formats always agree with each other, and with the input where the
\* input holds no conflicting pair.
LosslessWithoutConflict ==
    BothTransformsCalled =>
        \A i \in 1..Len(t_in) :
            /\ FactsOfListElement(t_list.items[i]) = FactsOfDictElement(t_dict.items[i])
            /\ ~HasConflict(t_in[i]) =>
                  FactsOfListElement(t_list.items[i]) = FactsOfRequest(t_in[i])

\* facts holds the amount of the later of two conflicting ResourceRequests of ar
\* and not the amount of the earlier one.
KeepsOnlyLater(ar, facts) ==
    \E j, k \in 1..Len(ar.resource_requests) :
        LET e == ar.resource_requests[j]
            l == ar.resource_requests[k]
        IN  /\ j < k
            /\ e.resource_provider.uuid = l.resource_provider.uuid
            /\ e.resource_class = l.resource_class
            /\ e.amount /= l.amount
            /\ <<l.resource_provider.uuid, l.resource_class, l.amount>> \in facts
            /\ <<e.resource_provider.uuid, e.resource_class, e.amount>> \notin facts

\* C8: neither transform resolves a duplicate (provider, class) by last-write-wins:
\* no returned output keeps the later amount of a conflicting pair and drops the
\* earlier one.
C8_NoSilentLastWriteWins ==
    \A i \in 1..Len(t_in) :
        /\ t_list /= NotCalled =>
              ~KeepsOnlyLater(t_in[i], FactsOfListElement(t_list.items[i]))
        /\ t_dict /= NotCalled =>
              ~KeepsOnlyLater(t_in[i], FactsOfDictElement(t_dict.items[i]))

\* The position of the first ResourceRequest of ar that names provider u.
FirstOccurrence(ar, u) ==
    CHOOSE j \in 1..Len(ar.resource_requests) :
        /\ ar.resource_requests[j].resource_provider.uuid = u
        /\ \A k \in 1..(j - 1) : ar.resource_requests[k].resource_provider.uuid /= u

\* The resource classes ar asks of provider u.
ClassesAsked(ar, u) ==
    {ar.resource_requests[j].resource_class :
        j \in {k \in 1..Len(ar.resource_requests) :
                  ar.resource_requests[k].resource_provider.uuid = u}}

\* C10: in the flat-list format each "allocations" list has exactly one entry per
\* distinct provider of the AllocationRequest, in the order in which the providers
\* first occur in resource_requests, and each entry's resources hold every
\* resource class asked of that provider.
C10_OneEntryPerProviderInOrder ==
    t_list /= NotCalled =>
        /\ Len(t_list.items) = Len(t_in)
        /\ \A i \in 1..Len(t_in) :
              LET allocs == t_list.items[i].allocations.items
                  uuid(a) == allocs[a].resource_provider.uuid
              IN  /\ {uuid(a) : a \in 1..Len(allocs)} = ProvidersOf(t_in[i])
                  /\ \A a, b \in 1..Len(allocs) :
                        a < b => /\ uuid(a) /= uuid(b)
                                 /\ FirstOccurrence(t_in[i], uuid(a)) <
                                    FirstOccurrence(t_in[i], uuid(b))
                  /\ \A a \in 1..Len(allocs) :
                        DOMAIN allocs[a].resources.map = ClassesAsked(t_in[i], uuid(a))

C10_Witness ==
    /\ t_list /= NotCalled
    /\ \E i \in 1..Len(t_in) :
          LET rrs == t_in[i].resource_requests
              allocs == t_list.items[i].allocations.items
          IN  /\ Len(rrs) = 3
              /\ rrs[1].resource_provider.uuid = "B"
              /\ rrs[2].resource_provider.uuid = "A"
              /\ rrs[3].resource_provider.uuid = "B"
              /\ rrs[1].resource_class /= rrs[3].resource_class
              /\ Len(allocs) = 2
              /\ allocs[1].resource_provider.uuid = "B"
              /\ allocs[2].resource_provider.uuid = "A"
              /\ DOMAIN allocs[1].resources.map = Classes

\* The position of the last ProviderSummary of p_sums for provider u.
LastSummary(p_sums, u) ==
    CHOOSE k \in 1..Len(p_sums) :
        /\ p_sums[k].resource_provider.uuid = u
        /\ \A n \in (k + 1)..Len(p_sums) : p_sums[n].resource_provider.uuid /= u

\* C3: every entry of provider_summaries has a "traits" key if and only if the
\* version is at or above 1.17; where it has one, it lists the provider's trait
\* names in the order the engine supplied them (an empty list for no traits).
C3_TraitsIffVersion ==
    trx_cands /= NotCalled =>
        LET p_sums == cands.provider_summaries
            out == trx_cands.provider_summaries
        IN  /\ DOMAIN out.map =
               {p_sums[k].resource_provider.uuid : k \in 1..Len(p_sums)}
            /\ \A u \in DOMAIN out.map :
                  /\ "resources" \in DOMAIN out.map[u]
                  /\ ("traits" \in DOMAIN out.map[u]) <=> ~Below(want_version, 17)
                  /\ ~Below(want_version, 17) =>
                        LET given == p_sums[LastSummary(p_sums, u)].traits
                            listed == out.map[u].traits
                        IN  /\ listed.type = "list"
                            /\ Len(listed.items) = Len(given)
                            /\ \A j \in 1..Len(given) : listed.items[j] = given[j].name

C3_Witness ==
    /\ trx_cands /= NotCalled
    /\ want_version = <<1, 17>>
    /\ \E u, w \in DOMAIN trx_cands.provider_summaries.map :
          /\ trx_cands.provider_summaries.map[u].traits.items = <<>>
          /\ trx_cands.provider_summaries.map[w].traits.items =
                <<"HW_NIC_OFFLOAD_TSO", "HW_CPU_X86_AVX512F">>

\* C4: validation and parsing precede the engine call: where
\* util.validate_query_params or util.parse_qs_request_groups raised, get_by_requests
\* and the transformer were never called; and the engine is called only once both
\* have returned.
C4_ValidationBeforeEngine ==
    /\ failed_at \in {"validate", "parse"} =>
          /\ Len(engine_calls) = 0
          /\ cands = NotCalled
          /\ trx_calls = 0
          /\ trx_cands = NotCalled
    /\ pc \in {"start", "validated"} => Len(engine_calls) = 0 /\ trx_calls = 0

C4_Witness ==
    /\ failed_at = "parse"
    /\ pc = "raised"
    /\ raised.type = "HTTPBadRequest"

\* C5: when the engine raises ResourceClassNotFound or TraitNotFound the handler
\* ends with an HTTPBadRequest (400) whose message carries the engine's error text,
\* the transformer is never called and nothing of the response is set.
C5_EngineErrorIsBadRequest ==
    engine_exc.type \in {"ResourceClassNotFound", "TraitNotFound"} =>
        /\ pc = "raised"
        /\ raised.type = "HTTPBadRequest"
        /\ raised.status = 400
        /\ \E n \in 1..Len(raised.msg) : raised.msg[n] = engine_exc.text
        /\ trx_calls = 0
        /\ trx_cands = NotCalled
        /\ response.body = Unset
        /\ response.content_type = Unset
        /\ response.cache_control = Unset
        /\ response.last_modified = Unset
        /\ response.body_sets = 0

C5_Witness ==
    /\ engine_exc.type = "TraitNotFound"
    /\ raised.type = "HTTPBadRequest"
    /\ Len(engine_calls) = 1

\* The decimal digits of n.
RECURSIVE Decimal(_)
Decimal(n) == IF n < 10 THEN <<n>> ELSE Decimal(n \div 10) \o <<n % 10>>

\* s without its leading zeros (one digit at least).
RECURSIVE StripZeros(_)
StripZeros(s) == IF Len(s) > 1 /\ s[1] = 0 THEN StripZeros(Tail(s)) ELSE s

\* C6: limit is passed through and nothing is truncated: get_by_requests gets the
\* integer the request's limit parameter denotes (the empty value list when there is
\* none), and allocation_requests has one element per AllocationRequest the engine
\* returned, in the engine's order, whatever the limit.
C6_LimitPassedThroughNoTruncation ==
    /\ \A n \in 1..Len(engine_calls) :
          IF Len(req_limit.items) = 0
          THEN engine_calls[n].limit.type = "list" /\ Len(engine_calls[n].limit.items) = 0
          ELSE /\ engine_calls[n].limit.type = "int"
               /\ Decimal(engine_calls[n].limit.val) = StripZeros(req_limit.items[1])
    /\ pc = "done" =>
          /\ Len(engine_calls) = 1
          /\ Len(trx_cands.allocation_requests.items) = Len(cands.allocation_requests)
          /\ \A i \in 1..Len(cands.allocation_requests) :
                ProvidersIn(trx_cands.allocation_requests.items[i]) =
                ProvidersOf(cands.allocation_requests[i])

C6_Witness ==
    /\ pc = "done"
    /\ req_limit.items = <<(<<2>>)>>
    /\ engine_calls[1].limit = PyInt(2)
    /\ Len(cands.allocation_requests) = 3
    /\ Len(trx_cands.allocation_requests.items) = 3
    /\ ProvidersIn(trx_cands.allocation_requests.items[3]) /= {}

\* C7: on a successful response Cache-Control: no-cache and Last-Modified are both
\* set if and only if the version is at or above 1.15, below 1.15 neither is set,
\* the content type is application/json and the body is set exactly once.
C7_CacheHeadersIffVersion ==
    pc = "done" =>
        /\ IF Below(want_version, 15)
           THEN response.cache_control = Unset /\ response.last_modified = Unset
           ELSE /\ response.cache_control = Assigned("no-cache")
                /\ response.last_modified.type = "set"
                /\ response.last_modified.value \in Times
        /\ response.content_type = Assigned("application/json")
        /\ response.body_sets = 1
        /\ response.body = Assigned([encoding |-> "utf-8", json |-> trx_cands])

C7_Witness ==
    /\ pc = "done"
    /\ want_version = <<1, 15>>
    /\ response.cache_control = Assigned("no-cache")
    /\ response.last_modified.type = "set"

\* C9: the schema of the highest threshold the version satisfies is selected:
\* 1.10 to 1.15 select GET_SCHEMA_1_10, 1.16 selects GET_SCHEMA_1_16, 1.17 to 1.20
\* select GET_SCHEMA_1_17 and 1.21 and above select GET_SCHEMA_1_21, whatever the
\* allocation format, the traits and the cache headers of that version are.
C9_SchemaByVersion ==
    pc \notin {"start", "idle", "transform"} =>
        LET minor == want_version[2]
        IN  /\ want_version[1] = 1
            /\ minor \in 10..15 => get_schema = "GET_SCHEMA_1_10"
            /\ minor = 16 => get_schema = "GET_SCHEMA_1_16"
            /\ minor \in 17..20 => get_schema = "GET_SCHEMA_1_17"
            /\ minor >= 21 => get_schema = "GET_SCHEMA_1_21"
            /\ get_schema \in {"GET_SCHEMA_1_10", "GET_SCHEMA_1_16",
                               "GET_SCHEMA_1_17", "GET_SCHEMA_1_21"}

C9_Witness ==
    /\ pc = "done"
    /\ want_version = <<1, 20>>
    /\ get_schema = "GET_SCHEMA_1_17"
    /\ response.cache_control = Assigned("no-cache")

====
